---- MODULE Spec2Model ----
(***************************************************************************)
(* Database access layer of the action lambda: the process-wide PooledDB   *)
(* connection pool (DatabaseUtil), the connection context manager, the     *)
(* retrying query executor (DatabaseUtil.retry_query / execute) and the    *)
(* site-master repository lookup built on them.                            *)
(*                                                                         *)
(* Thread Main runs SiteMasterRepository.get_site_master_by_id step by     *)
(* step (specification Spec).  Threads 1..NumThreads call                  *)
(* DatabaseUtil.get_connection and close what they borrowed, concurrently  *)
(* (specifications PoolSpec and FairPoolSpec).  HandlerSpec runs the       *)
(* lambda handler with deploy_stacks and destroy_stacks on thread Main,     *)
(* calling the repository lookup and the boto3 clients.                    *)
(***************************************************************************)
EXTENDS Integers, Sequences, FiniteSets, TLC

VARIABLES
    connection_pool,  \* DatabaseUtil._connection_pool: 0 (None) or a pool id
    pools,            \* every PooledDB built so far, by id (its index)
    explicit_inits,   \* how many pools were built by a direct initialize() call
    pc,               \* where each thread stands
    tpool,            \* per thread: the pool object line 67 read, 0 before
    conn,             \* per thread: pool id of the connection it holds, 0 if none
    seen_closed,      \* per thread: close() had run on the pool line 65 found
    default_max_retries, \* RetryConstant.DEFAULT_MAX_RETRIES as the process holds it
    cursors_used,     \* the cursors the callback was invoked with in this call
    attempt_num,      \* retry_query local (line 97)
    max_attempts,     \* retry_query local (line 98)
    e,                \* the exception retry_query has caught
    trace,            \* what the current retry_query call did, in order
    rq_result,        \* what retry_query returned
    result,           \* what get_site_master_by_id returned
    exc,              \* the exception propagating out of the with block
    borrowed,         \* connections borrowed by the current repository call
    released,         \* close() calls the context manager made in that call
    repo_exc,         \* the exception get_site_master_by_id raised to its caller
    hpc,              \* where the handler invocation in progress stands
    event,            \* the event it was invoked with
    manager_domain,   \* its local manager_domain
    calls,            \* the external calls it has made, in order, with their outcomes
    response          \* what it returned

vars == <<connection_pool, pools, explicit_inits, pc, tpool, conn, seen_closed,
          default_max_retries, cursors_used, attempt_num, max_attempts, e, trace,
          rq_result, result, exc, borrowed, released, repo_exc,
          hpc, event, manager_domain, calls, response>>

poolVars  == <<connection_pool, pools, explicit_inits>>
retryVars == <<default_max_retries, cursors_used, attempt_num, max_attempts, e, trace,
               rq_result>>
repoVars  == <<result, exc, borrowed, released, repo_exc>>
handlerVars == <<hpc, event, manager_domain, calls, response>>

----------------------------------------------------------------------------
(* Bounds of the model *)

NumThreads == 2      \* concurrent callers of get_connection
MaxPools == 2        \* PooledDB objects built in one behaviour
NumMsgs == 2         \* distinct error messages the driver can attach
MaxRows == 1         \* largest cursor.rowcount a statement reports

Main == 0
PoolThreads == 1..NumThreads
Threads == 0..NumThreads
Msgs == 1..NumMsgs

----------------------------------------------------------------------------
(* Program constants *)

DEFAULT_MAX_RETRIES == 3
maxconnections == 20
ER_LOCK_WAIT_TIMEOUT == 1205
ER_LOCK_DEADLOCK == 1213
\* Codes the driver reports that are no lock errors (1046: no database selected).
OtherCodes == {1046}
\* Mutant: the pool is built with blocking=False.
blocking_false == FALSE

blocking == TRUE

\* Mutant: 1046 is taken for a lock error too.
retryable_errors_1046 == {ER_LOCK_WAIT_TIMEOUT, ER_LOCK_DEADLOCK} \cup OtherCodes

retryable_errors == {ER_LOCK_WAIT_TIMEOUT, ER_LOCK_DEADLOCK}

----------------------------------------------------------------------------
(* Values and exceptions *)

None == [ty |-> "None"]
IntVal(n) == [ty |-> "int", v |-> n]
StrVal(m) == [ty |-> "str", v |-> m]
Row == [ty |-> "dict"]
\* A tuple value, such as the args of an exception.
TupleVal(items) == [ty |-> "tuple", items |-> items]

\* A pymysql.err.MySQLError with the given args tuple.
MySQLError(args) == [cls |-> "MySQLError", args |-> args]
\* Any exception that is not a MySQLError.
OtherError(args) == [cls |-> "Exception", args |-> args]

CustomException(cls, message, is_retry, is_send_email, is_send_to_dlq, is_insert) ==
    [cls |-> cls, message |-> message, is_retry |-> is_retry,
     is_send_email |-> is_send_email, is_send_to_dlq |-> is_send_to_dlq,
     is_insert_to_api_error_history |-> is_insert]

\* CustomException(message): is_retry defaults to False, the others to True.
CustomExceptionWithDefaults(message) ==
    CustomException("CustomException", message, FALSE, TRUE, TRUE, TRUE)

\* DatabaseException(message): is_retry defaults to True here.
DatabaseException(message) ==
    CustomException("DatabaseException", message, TRUE, TRUE, TRUE, TRUE)

DatabaseLockException_retryable(message) ==
    CustomException("DatabaseLockException", message, TRUE, TRUE, TRUE, TRUE)

DatabaseLockException(message) ==
    CustomException("DatabaseLockException", message, FALSE, TRUE, TRUE, TRUE)

\* The driver errors the callback can raise: a code with a message, no args at
\* all, or a first field that is not an integer.
DriverErrors ==
    {MySQLError(<<IntVal(c), StrVal(m)>>) :
        c \in {ER_LOCK_WAIT_TIMEOUT, ER_LOCK_DEADLOCK} \cup OtherCodes, m \in Msgs}
    \cup {MySQLError(<< >>)}
    \cup {MySQLError(<<StrVal(m)>>) : m \in Msgs}

NonDriverErrors == {OtherError(<<StrVal(m)>>) : m \in Msgs}

\* What one invocation of the callback can do.
CallbackOutcomes ==
    {[kind |-> "return", val |-> IntVal(r)] : r \in 0..MaxRows}
    \cup {[kind |-> "raise", val |-> x] : x \in DriverErrors \cup NonDriverErrors}

----------------------------------------------------------------------------
(* Trace of one retry_query call *)

EvCall == [ev |-> "call", n |-> 0, val |-> None]
EvOk(v) == [ev |-> "ok", n |-> 0, val |-> v]
EvFail(x) == [ev |-> "fail", n |-> 0, val |-> x]

\* Largest attempt number for which the delay is computed.
MaxBackoff == 6

RECURSIVE IntPow(_, _)
IntPow(b, n) == IF n <= 0 THEN 1 ELSE b * IntPow(b, n - 1)

\* A delay in seconds, held exactly as the fraction num / den.
Frac(num, den) == [ty |-> "frac", num |-> num, den |-> den]
FracLess(a, b) == a.num * b.den < b.num * a.den
FracPow(f, n) ==
    IF n >= 0 THEN Frac(IntPow(f.num, n), IntPow(f.den, n))
              ELSE Frac(IntPow(f.den, 0 - n), IntPow(f.num, 0 - n))

RETRY_DELAY_IN_SECONDS_two == Frac(2, 1)
\* RetryConstant.RETRY_DELAY_IN_SECONDS = 0.1
RETRY_DELAY_IN_SECONDS == Frac(1, 10)

\* common_util.py line 16: sleep_time = RETRY_DELAY_IN_SECONDS ** retry_count.
sleep_time(retry_count) == FracPow(RETRY_DELAY_IN_SECONDS, retry_count)

\* sleep_with_exponential_backoff(n): time.sleep(sleep_time).
EvSleep(n) == [ev |-> "sleep", n |-> n, val |-> sleep_time(n)]

----------------------------------------------------------------------------
(* dbutils.pooled_db.PooledDB as DatabaseUtil configures and uses it *)

\* PooledDB(...): a fresh pool with nothing checked out.  `by` records which
\* code path built it, `closed` whether close() has run on it.
PooledDB(by) == [connections |-> 0, closed |-> FALSE, by |-> by]

\* pool.connection() must wait: maxconnections are checked out.
PoolExhausted(p) == p.connections >= maxconnections

\* pool.connection(): one more connection is checked out.
PoolConnection(p) == [p EXCEPT !.connections = @ + 1]

\* connection.close() on a pooled connection: it goes back to its pool.
PoolCache(p) == [p EXCEPT !.connections = @ - 1]

\* pool.close(): the idle connections are closed; the pool object stays.
PoolClose(p) == [p EXCEPT !.closed = TRUE]

\* Connections of pool id held by the modelled threads.
HeldBy(id) == Cardinality({t \in Threads : conn[t] = id})

----------------------------------------------------------------------------
(* DatabaseUtil: initialize, get_connection, close_all_connections *)

InitializeAssign_keepOld(new_id) == IF connection_pool = 0 THEN new_id ELSE connection_pool

\* What initialize() leaves in _connection_pool: the pool it has just built.
InitializeAssign(new_id) == new_id

\* DatabaseUtil.initialize(): build a PooledDB and store it in the class.
DoInitialize(by) ==
    /\ Len(pools) < MaxPools
    /\ pools' = Append(pools, PooledDB(by))
    /\ connection_pool' = InitializeAssign(Len(pools) + 1)

\* A direct call of DatabaseUtil.initialize(), as the lambda module makes
\* when it is imported.
Initialize ==
    /\ DoInitialize("explicit")
    /\ explicit_inits' = explicit_inits + 1
    /\ UNCHANGED <<handlerVars, pc, tpool, conn, seen_closed, retryVars, repoVars>>

\* Mutant: close_all_connections() also forgets the pool.
CloseAllAssign_reset(cur) == 0

\* What close_all_connections() leaves in _connection_pool.
CloseAllAssign(cur) == cur

\* DatabaseUtil.close_all_connections().
CloseAll ==
    /\ connection_pool # 0
    /\ pools' = [pools EXCEPT ![connection_pool] = PoolClose(@)]
    /\ connection_pool' = CloseAllAssign(connection_pool)
    /\ UNCHANGED <<handlerVars, explicit_inits, pc, tpool, conn, seen_closed, retryVars, repoVars>>

\* Where a thread goes once get_connection has returned its connection.
AfterBorrow(t) == IF t = Main THEN "with_body" ELSE "holding"

\* A pool thread calls DatabaseUtil.get_connection().
GC_Call(t) ==
    /\ pc[t] = "idle"
    /\ pc' = [pc EXCEPT ![t] = "gc_check"]
    /\ UNCHANGED <<handlerVars, poolVars, tpool, conn, seen_closed, retryVars, repoVars>>

\* Line 65: if cls._connection_pool is None.
GC_Check(t) ==
    /\ pc[t] = "gc_check"
    /\ pc' = [pc EXCEPT ![t] = IF connection_pool = 0 THEN "gc_init" ELSE "gc_read"]
    /\ seen_closed' = [seen_closed EXCEPT ![t] =
           connection_pool # 0 /\ pools[connection_pool].closed]
    /\ UNCHANGED <<handlerVars, poolVars, tpool, conn, retryVars, repoVars>>

\* Line 66: cls.initialize(), on the lazy path.
GC_Init(t) ==
    /\ pc[t] = "gc_init"
    /\ DoInitialize("lazy")
    /\ pc' = [pc EXCEPT ![t] = "gc_read"]
    /\ UNCHANGED <<handlerVars, explicit_inits, tpool, conn, seen_closed, retryVars, repoVars>>

\* Line 67, first half: read cls._connection_pool.  Were it None, the
\* attribute lookup .connection would raise AttributeError.
GC_Read(t) ==
    /\ pc[t] = "gc_read"
    /\ tpool' = [tpool EXCEPT ![t] = connection_pool]
    /\ pc' = [pc EXCEPT ![t] = IF connection_pool = 0 THEN "gc_failed" ELSE "gc_borrow"]
    /\ UNCHANGED <<handlerVars, poolVars, conn, seen_closed, retryVars, repoVars>>

\* Line 67, second half: .connection() on the pool that was read.  With
\* blocking=True the call waits while the pool is exhausted; otherwise it
\* would raise TooManyConnections.
GC_Borrow(t) ==
    /\ pc[t] = "gc_borrow"
    /\ IF PoolExhausted(pools[tpool[t]])
       THEN /\ ~blocking
            /\ pc' = [pc EXCEPT ![t] = "gc_failed"]
            /\ UNCHANGED <<pools, conn, borrowed>>
       ELSE /\ pools' = [pools EXCEPT ![tpool[t]] = PoolConnection(@)]
            /\ conn' = [conn EXCEPT ![t] = tpool[t]]
            /\ borrowed' = IF t = Main THEN borrowed + 1 ELSE borrowed
            /\ pc' = [pc EXCEPT ![t] = AfterBorrow(t)]
    /\ UNCHANGED <<handlerVars, connection_pool, explicit_inits, tpool, seen_closed, retryVars,
                   result, exc, released, repo_exc>>

\* A pool thread closes the connection it borrowed.
Release(t) ==
    /\ pc[t] = "holding"
    /\ pools' = [pools EXCEPT ![conn[t]] = PoolCache(@)]
    /\ conn' = [conn EXCEPT ![t] = 0]
    /\ pc' = [pc EXCEPT ![t] = "idle"]
    /\ UNCHANGED <<handlerVars, connection_pool, explicit_inits, tpool, seen_closed, retryVars, repoVars>>

----------------------------------------------------------------------------
(* DatabaseUtil.retry_query, as DatabaseUtil.execute calls it *)

\* Lines 110-114: the error code is the first field of e.args when that is an
\* integer, None otherwise; the error is retryable when the code is in
\* retryable_errors.
IsRetryable_lenient(x) ==
    \/ Len(x.args) = 0
    \/ x.args[1].ty # "int"
    \/ x.args[1].v \in retryable_errors

IsRetryable(x) ==
    /\ Len(x.args) > 0
    /\ x.args[1].ty = "int"
    /\ x.args[1].v \in retryable_errors

\* Line 21 of the repository: the one cursor the call opens on its connection.
cursor == 1

CallbackCursor_perAttempt(c, attempt) == c + attempt

\* Line 103: callback(cursor), the cursor retry_query was given, on every turn.
CallbackCursor(c, attempt) == c

LoopCondition_inclusive(a, m) == a <= m

\* Line 100: while attempt_num < max_attempts.
LoopCondition(a, m) == a < m

\* Mutant: the exhaustion test is off by one.
AttemptsLeft_offByOne(a, m) == a <= m

\* Line 118: if attempt_num < max_attempts (attempts are left).
AttemptsLeft(a, m) == a < m

\* Mutant: the backoff is handed a 0-indexed retry count.
BackoffArg_zeroIndexed(a) == a - 1

\* Line 120: the retry count handed to sleep_with_exponential_backoff.
BackoffArg(a) == a

\* Mutant: the exception carries the detail of the first failure of the call.
ErrorDetail_first(x, tr) == TupleVal(tr[2].val.args)

\* Lines 125 and 129: the detail the raised exception carries.
ErrorDetail(x, tr) == TupleVal(x.args)

\* Mutant: the callback's result is dropped.
CallbackReturn_dropped(v) == None

\* Line 103: return callback(cursor).
CallbackReturn(v) == v

\* Mutant: an unexpected exception is wrapped like a driver error.
Reraise_wrapped(x) == DatabaseException(TupleVal(x.args))

\* Line 133: raise (the exception that was caught).
Reraise(x) == x

\* DatabaseUtil.execute enters retry_query: lines 97-98.
RQ_Enter ==
    /\ pc[Main] = "with_body"
    /\ attempt_num' = 0
    /\ max_attempts' = default_max_retries
    /\ pc' = [pc EXCEPT ![Main] = "rq_loop"]
    /\ UNCHANGED <<handlerVars, poolVars, tpool, conn, seen_closed, default_max_retries, cursors_used,
                   e, trace, rq_result, repoVars>>

\* Line 100, and line 134 when the loop is left.
RQ_Loop ==
    /\ pc[Main] = "rq_loop"
    /\ IF LoopCondition(attempt_num, max_attempts)
       THEN /\ pc' = [pc EXCEPT ![Main] = "rq_try"]
            /\ UNCHANGED rq_result
       ELSE /\ pc' = [pc EXCEPT ![Main] = "fetchone"]
            /\ rq_result' = None
    /\ UNCHANGED <<handlerVars, poolVars, tpool, conn, seen_closed, default_max_retries, cursors_used,
                   attempt_num, max_attempts, e, trace, repoVars>>

\* Lines 101-105 and 130: one invocation of the callback.
RQ_Callback ==
    /\ pc[Main] = "rq_try"
    /\ \E out \in CallbackOutcomes :
        IF out.kind = "return"
        THEN /\ trace' = trace \o <<EvCall, EvOk(out.val)>>
             /\ rq_result' = CallbackReturn(out.val)
             /\ pc' = [pc EXCEPT ![Main] = "fetchone"]
             /\ UNCHANGED e
        ELSE /\ trace' = trace \o <<EvCall, EvFail(out.val)>>
             /\ e' = out.val
             /\ pc' = [pc EXCEPT ![Main] =
                    IF out.val.cls = "MySQLError" THEN "rq_mysql_error" ELSE "rq_other_error"]
             /\ UNCHANGED rq_result
    /\ cursors_used' = cursors_used \cup {CallbackCursor(cursor, attempt_num)}
    /\ UNCHANGED <<handlerVars, poolVars, tpool, conn, seen_closed, default_max_retries, attempt_num,
                   max_attempts, repoVars>>

\* Lines 105-129: a driver error is classified.
RQ_MySQLError ==
    /\ pc[Main] = "rq_mysql_error"
    /\ IF IsRetryable(e)
       THEN /\ attempt_num' = attempt_num + 1
            /\ IF AttemptsLeft(attempt_num + 1, max_attempts)
               THEN /\ pc' = [pc EXCEPT ![Main] = "rq_sleep"]
                    /\ UNCHANGED exc
               ELSE /\ exc' = DatabaseLockException(ErrorDetail(e, trace))
                    /\ pc' = [pc EXCEPT ![Main] = "with_exit"]
       ELSE /\ exc' = DatabaseException(ErrorDetail(e, trace))
            /\ pc' = [pc EXCEPT ![Main] = "with_exit"]
            /\ UNCHANGED attempt_num
    /\ UNCHANGED <<handlerVars, poolVars, tpool, conn, seen_closed, default_max_retries, cursors_used,
                   max_attempts, e, trace, rq_result, result, borrowed, released, repo_exc>>

\* Lines 120-121: the backoff wait, then the next turn of the loop.
RQ_Sleep ==
    /\ pc[Main] = "rq_sleep"
    /\ trace' = Append(trace, EvSleep(BackoffArg(attempt_num)))
    /\ pc' = [pc EXCEPT ![Main] = "rq_loop"]
    /\ UNCHANGED <<handlerVars, poolVars, tpool, conn, seen_closed, default_max_retries, cursors_used,
                   attempt_num, max_attempts, e, rq_result, repoVars>>

\* Lines 130-133: any other exception is logged and raised again.
RQ_OtherError ==
    /\ pc[Main] = "rq_other_error"
    /\ exc' = Reraise(e)
    /\ pc' = [pc EXCEPT ![Main] = "with_exit"]
    /\ UNCHANGED <<handlerVars, poolVars, tpool, conn, seen_closed, retryVars, result, borrowed,
                   released, repo_exc>>

----------------------------------------------------------------------------
(* SiteMasterRepository.get_site_master_by_id and the context manager *)

NoExc == [cls |-> "None"]

FetchOneResult_needsTwo(rc) == IF rc.ty = "int" /\ rc.v > 1 THEN Row ELSE None

\* cursor.fetchone() after the statement: the first row, or None.
FetchOneResult(rc) == IF rc.ty = "int" /\ rc.v > 0 THEN Row ELSE None

\* What cursor.fetchone() raises on a cursor that never executed a statement:
\* pymysql's ProgrammingError("execute() first"), a MySQLError.
NotExecuted == MySQLError(<<StrVal(0)>>)

\* get_site_master_by_id is called: DatabaseUtil.connection() starts
\* get_connection().
Repo_CallBody ==
    /\ pc[Main] \in {"idle", "done"}
    /\ pc' = [pc EXCEPT ![Main] = "gc_check"]
    /\ cursors_used' = {}
    /\ attempt_num' = 0
    /\ max_attempts' = 0
    /\ e' = NoExc
    /\ trace' = << >>
    /\ rq_result' = None
    /\ result' = None
    /\ exc' = NoExc
    /\ borrowed' = 0
    /\ released' = 0
    /\ repo_exc' = NoExc
    /\ UNCHANGED <<poolVars, tpool, conn, seen_closed, default_max_retries>>

\* The repository called directly, outside any handler invocation.
Repo_Call == Repo_CallBody /\ UNCHANGED handlerVars

\* Lines 28-36 of the repository: fetchone and the return value.
Repo_FetchOne ==
    /\ pc[Main] = "fetchone"
    /\ IF rq_result = None
       THEN /\ exc' = NotExecuted
            /\ UNCHANGED result
       ELSE /\ result' = FetchOneResult(rq_result)
            /\ UNCHANGED exc
    /\ pc' = [pc EXCEPT ![Main] = "with_exit"]
    /\ UNCHANGED <<handlerVars, poolVars, tpool, conn, seen_closed, retryVars, borrowed, released,
                   repo_exc>>

\* Mutant: __exit__ closes the connection only when the block ended normally.
ExitCloses_onlyOnSuccess(x) == x = NoExc

\* Whether __exit__ closes the connection, given the exception leaving the block.
ExitCloses(x) == TRUE

\* ConnectionContextManager.__exit__: self.connection.close().
CCM_Exit ==
    /\ pc[Main] = "with_exit"
    /\ IF ExitCloses(exc)
       THEN /\ pools' = [pools EXCEPT ![conn[Main]] = PoolCache(@)]
            /\ conn' = [conn EXCEPT ![Main] = 0]
            /\ released' = released + 1
       ELSE UNCHANGED <<pools, conn, released>>
    /\ pc' = [pc EXCEPT ![Main] = IF exc = NoExc THEN "done" ELSE "repo_except"]
    /\ UNCHANGED <<handlerVars, connection_pool, explicit_inits, tpool, seen_closed, retryVars,
                   result, exc, borrowed, repo_exc>>

\* CustomException.__str__: return self.args[0], the message it was built with.
CustomException__str__(x) == x.message

\* str(x), as an f-string applies it: Python raises TypeError when __str__
\* returns something that is not a str.  Exceptions that are not
\* CustomExceptions use the built-in __str__, which never fails.
StrRaises(x) ==
    /\ x.cls \in {"CustomException", "DatabaseException", "DatabaseLockException"}
    /\ CustomException__str__(x).ty # "str"

\* TypeError: __str__ returned non-string.
TypeErrorNonString == [cls |-> "TypeError", args |-> <<StrVal(0)>>]

\* Lines 38-40 of the repository: logger.error(f"...{e}"), then raise.  When
\* formatting e fails, the TypeError leaves the handler in place of e.
Repo_Except ==
    /\ pc[Main] = "repo_except"
    /\ repo_exc' = IF StrRaises(exc) THEN TypeErrorNonString ELSE exc
    /\ pc' = [pc EXCEPT ![Main] = "done"]
    /\ UNCHANGED <<handlerVars, poolVars, tpool, conn, seen_closed, retryVars, result, exc,
                   borrowed, released>>

----------------------------------------------------------------------------
(* lambda_function: handler, deploy_stacks, destroy_stacks *)

\* StatusCodeConstant.
SUCCESS == 200
BAD_REQUEST == 400
INTERNAL_SERVER_ERROR == 500
NOT_FOUND == 404

\* ActionConstant.
DEPLOY == "deploy"
DESTROY == "destroy"

\* No handler invocation has returned yet.
NoResponse == [ty |-> "pending"]

\* A response mapping; body.message is kept, the error text is not.
Response(statusCode, message) ==
    [ty |-> "dict", statusCode |-> statusCode, message |-> message]

\* The events the handler is invoked with: action and site_master_id each
\* missing, or a string.
Events ==
    [action : {None, StrVal(DEPLOY), StrVal(DESTROY), StrVal("status")},
     site_master_id : {None, StrVal(""), StrVal("site-42")}]

\* The manager_domain column of a row that was found.
ManagerDomains == {None, StrVal(""), StrVal("example.com")}

IsFalsy_onlyNone(v) == v = None

\* Python's `not v` for the values at hand.
IsFalsy(v) == v = None \/ v = StrVal("")

\* Outcomes of a boto3 call: it returns, raises botocore's ClientError, or
\* raises something else (for instance a connection error).
Ok == [kind |-> "ok"]
ClientError(code, text) ==
    [kind |-> "raise", exc |-> [cls |-> "ClientError", code |-> code, text |-> text]]
BotoOther == [kind |-> "raise", exc |-> [cls |-> "BotoCoreError"]]

HeadOutcomes == {Ok, ClientError("404", "Not Found"), ClientError("403", "Forbidden"), BotoOther}
StartOutcomes == {Ok, ClientError("PipelineNotFoundException", "not found"), BotoOther}
PutOutcomes == {Ok, ClientError("AccessDenied", "Access Denied"), BotoOther}
DescribeOutcomes ==
    {Ok, ClientError("ValidationError", "Stack with id does not exist"),
     ClientError("AccessDenied", "not authorized"), BotoOther}
DeleteOutcomes == {Ok, ClientError("AccessDenied", "not authorized"), BotoOther}

\* One external call in the log of the invocation.
Call(op, out) == [op |-> op, out |-> out]

\* The handler returns r.
Return(r) ==
    /\ response' = r
    /\ hpc' = "returned"

\* The handler is invoked with some event.
H_Invoke ==
    /\ hpc \in {"idle", "returned"}
    /\ \E ev \in Events : event' = ev
    /\ hpc' = "h_dispatch"
    /\ calls' = << >>
    /\ manager_domain' = None
    /\ response' = NoResponse
    /\ UNCHANGED <<poolVars, pc, tpool, conn, seen_closed, retryVars, repoVars>>

\* handler, lines 20-45.
H_Dispatch ==
    /\ hpc = "h_dispatch"
    /\ IF IsFalsy(event.site_master_id)
       THEN Return(Response(BAD_REQUEST, "site_master_id is required in request body"))
       ELSE IF event.action = StrVal(DEPLOY)
       THEN hpc' = "d_entry" /\ UNCHANGED response
       ELSE IF event.action = StrVal(DESTROY)
       THEN hpc' = "x_lookup" /\ UNCHANGED response
       ELSE Return(Response(BAD_REQUEST, "Invalid action"))
    /\ UNCHANGED <<poolVars, pc, tpool, conn, seen_closed, retryVars, repoVars,
                   event, manager_domain, calls>>

\* deploy_stacks, lines 61-75: the second test of site_master_id and the S3
\* client; a failure to build the client goes to the handler at line 177.
D_Entry ==
    /\ hpc = "d_entry"
    /\ IF IsFalsy(event.site_master_id)
       THEN Return(Response(BAD_REQUEST, "site_master_id is required in request body"))
       ELSE \E client_built \in BOOLEAN :
                IF client_built
                THEN hpc' = "d_head" /\ UNCHANGED response
                ELSE Return(Response(INTERNAL_SERVER_ERROR, "Stack deployment failed"))
    /\ UNCHANGED <<poolVars, pc, tpool, conn, seen_closed, retryVars, repoVars,
                   event, manager_domain, calls>>

HeadBranch_alwaysMissing(out) == "missing"

\* Lines 79-93 and 167, 177: which way the head_object outcome leads.
HeadBranch(out) ==
    IF out.kind = "ok" THEN "exists"
    ELSE IF out.exc.cls = "ClientError"
         THEN IF out.exc.code = "404" THEN "missing" ELSE "s3_error"
         ELSE "error"

\* deploy_stacks, lines 79-93 and 167-187: the environment-file check.
D_Head ==
    /\ hpc = "d_head"
    /\ \E out \in HeadOutcomes :
        /\ calls' = Append(calls, Call("head_object", out))
        /\ LET branch == HeadBranch(out) IN
            IF branch = "exists"
            THEN Return(Response(SUCCESS, "env file exists in S3"))
            ELSE IF branch = "missing"
            THEN hpc' = "d_lookup" /\ UNCHANGED response
            ELSE IF branch = "s3_error"
            THEN Return(Response(INTERNAL_SERVER_ERROR, "Error checking .env file in S3"))
            ELSE Return(Response(INTERNAL_SERVER_ERROR, "Stack deployment failed"))
    /\ UNCHANGED <<poolVars, pc, tpool, conn, seen_closed, retryVars, repoVars,
                   event, manager_domain>>

\* Lines 98 and 195: SiteMasterRepository().get_site_master_by_id is called.
H_Lookup ==
    /\ hpc \in {"d_lookup", "x_lookup"}
    /\ Repo_CallBody
    /\ calls' = Append(calls, Call("get_site_master_by_id", [kind |-> "called"]))
    /\ hpc' = IF hpc = "d_lookup" THEN "d_wait" ELSE "x_wait"
    /\ UNCHANGED <<event, manager_domain, response>>

\* site_master_data.get(MANAGER_DOMAIN) if site_master_data else None.
DomainsOf(row) == IF row = None THEN {None} ELSE ManagerDomains

\* deploy_stacks, lines 98-112 and 158-166: the lookup has come back.
D_LookupReturn ==
    /\ hpc = "d_wait"
    /\ pc[Main] = "done"
    /\ IF repo_exc # NoExc
       THEN /\ Return(Response(INTERNAL_SERVER_ERROR, "Failed to start MotenasuApiPipeline"))
            /\ UNCHANGED manager_domain
       ELSE \E md \in DomainsOf(result) :
            /\ manager_domain' = md
            /\ IF IsFalsy(md)
               THEN Return(Response(NOT_FOUND, "No manager_domain found"))
               ELSE hpc' = "d_start" /\ UNCHANGED response
    /\ UNCHANGED <<poolVars, pc, tpool, conn, seen_closed, retryVars, repoVars,
                   event, calls>>

AfterStart_ignoreFailure(out) == "d_put"

\* Lines 117-123 and 158: a failed start leaves for the handler at line 158.
AfterStart(out) == IF out.kind = "ok" THEN "d_put" ELSE "failed"

\* deploy_stacks, lines 114-123: start_pipeline_execution.
D_Start ==
    /\ hpc = "d_start"
    /\ \E out \in StartOutcomes :
        /\ calls' = Append(calls, Call("start_pipeline_execution", out))
        /\ IF AfterStart(out) = "d_put"
           THEN hpc' = "d_put" /\ UNCHANGED response
           ELSE Return(Response(INTERNAL_SERVER_ERROR, "Failed to start MotenasuApiPipeline"))
    /\ UNCHANGED <<poolVars, pc, tpool, conn, seen_closed, retryVars, repoVars,
                   event, manager_domain>>

\* deploy_stacks, lines 126-157: put_object.  After a successful upload no
\* return statement follows: control runs off the end of the function, which
\* returns None.
D_Put ==
    /\ hpc = "d_put"
    /\ \E out \in PutOutcomes :
        /\ calls' = Append(calls, Call("put_object", out))
        /\ IF out.kind = "ok"
           THEN Return(None)
           ELSE Return(Response(INTERNAL_SERVER_ERROR, "Failed to upload .env file to S3"))
    /\ UNCHANGED <<poolVars, pc, tpool, conn, seen_closed, retryVars, repoVars,
                   event, manager_domain>>

\* isinstance(x, clause) for the except clauses of destroy_stacks: every
\* exception here is an Exception.
IsInstance(x, clause) == clause = "Exception" \/ x.cls = clause

\* The except clauses of the inner try of destroy_stacks, in source order
\* (lines 231 and 241).
DestroyClauses == <<"Exception", "ClientError">>

\* The first clause that matches x, as Python tries them; 0 if none does.
RECURSIVE FirstMatch(_, _, _)
FirstMatch(clauses, x, i) ==
    IF i > Len(clauses) THEN 0
    ELSE IF IsInstance(x, clauses[i]) THEN i
    ELSE FirstMatch(clauses, x, i + 1)

\* 'does not exist' in str(e).
DoesNotExist(x) == x.cls = "ClientError" /\ x.text = "Stack with id does not exist"

\* destroy_stacks, lines 231-263: what it returns when x is raised inside
\* the inner try.
DestroyExcept(x) ==
    LET clause == FirstMatch(DestroyClauses, x, 1) IN
    IF clause # 0 /\ DestroyClauses[clause] = "Exception"
    THEN Response(INTERNAL_SERVER_ERROR, "Error getting stack name from database")
    ELSE IF clause # 0 /\ DoesNotExist(x)
    THEN Response(NOT_FOUND, "Stack does not exist")
    ELSE Response(INTERNAL_SERVER_ERROR, "Stack deletion failed")

\* destroy_stacks, lines 195-206: the lookup has come back.
X_LookupReturn ==
    /\ hpc = "x_wait"
    /\ pc[Main] = "done"
    /\ IF repo_exc # NoExc
       THEN /\ Return(DestroyExcept(repo_exc))
            /\ UNCHANGED manager_domain
       ELSE \E md \in DomainsOf(result) :
            /\ manager_domain' = md
            /\ IF IsFalsy(md)
               THEN Return(Response(NOT_FOUND, "No manager domain found"))
               ELSE hpc' = "x_describe" /\ UNCHANGED response
    /\ UNCHANGED <<poolVars, pc, tpool, conn, seen_closed, retryVars, repoVars,
                   event, calls>>

AfterDescribe_ignoreFailure(out) == "x_delete"

\* Lines 215-219: delete_stack follows only when describe_stacks returned.
AfterDescribe(out) == IF out.kind = "ok" THEN "x_delete" ELSE "failed"

\* destroy_stacks, lines 212-216: describe_stacks.
X_Describe ==
    /\ hpc = "x_describe"
    /\ \E out \in DescribeOutcomes :
        /\ calls' = Append(calls, Call("describe_stacks", out))
        /\ IF AfterDescribe(out) = "x_delete"
           THEN hpc' = "x_delete" /\ UNCHANGED response
           ELSE Return(DestroyExcept(out.exc))
    /\ UNCHANGED <<poolVars, pc, tpool, conn, seen_closed, retryVars, repoVars,
                   event, manager_domain>>

\* destroy_stacks, lines 219-229: delete_stack.
X_Delete ==
    /\ hpc = "x_delete"
    /\ \E out \in DeleteOutcomes :
        /\ calls' = Append(calls, Call("delete_stack", out))
        /\ IF out.kind = "ok"
           THEN Return(Response(SUCCESS, "Stack deletion initiated successfully"))
           ELSE Return(DestroyExcept(out.exc))
    /\ UNCHANGED <<poolVars, pc, tpool, conn, seen_closed, retryVars, repoVars,
                   event, manager_domain>>

----------------------------------------------------------------------------
(* Specifications *)

Init ==
    /\ connection_pool = 0
    /\ pools = << >>
    /\ explicit_inits = 0
    /\ pc = [t \in Threads |-> "idle"]
    /\ tpool = [t \in Threads |-> 0]
    /\ conn = [t \in Threads |-> 0]
    /\ seen_closed = [t \in Threads |-> FALSE]
    /\ default_max_retries = DEFAULT_MAX_RETRIES
    /\ cursors_used = {}
    /\ attempt_num = 0
    /\ max_attempts = 0
    /\ e = NoExc
    /\ trace = << >>
    /\ rq_result = None
    /\ result = None
    /\ exc = NoExc
    /\ borrowed = 0
    /\ released = 0
    /\ repo_exc = NoExc
    /\ hpc = "idle"
    /\ event = None
    /\ manager_domain = None
    /\ calls = << >>
    /\ response = NoResponse

\* One invocation after another of get_site_master_by_id on thread Main, with
\* initialize() and close_all_connections() callable at any time.
Next ==
    \/ Repo_Call
    \/ GC_Check(Main)
    \/ GC_Init(Main)
    \/ GC_Read(Main)
    \/ GC_Borrow(Main)
    \/ RQ_Enter
    \/ RQ_Loop
    \/ RQ_Callback
    \/ RQ_MySQLError
    \/ RQ_Sleep
    \/ RQ_OtherError
    \/ Repo_FetchOne
    \/ CCM_Exit
    \/ Repo_Except
    \/ Initialize
    \/ CloseAll

Spec == Init /\ [][Next]_vars

\* Concurrent callers of get_connection.
PoolNext ==
    \/ \E t \in PoolThreads :
        \/ GC_Call(t)
        \/ GC_Check(t)
        \/ GC_Init(t)
        \/ GC_Read(t)
        \/ GC_Borrow(t)
        \/ Release(t)
    \/ Initialize
    \/ CloseAll

PoolSpec == Init /\ [][PoolNext]_vars

\* An invocation that is not one of the modelled threads runs get_connection
\* on the existing pool and is handed a connection.
OtherBorrow ==
    /\ connection_pool # 0
    /\ ~PoolExhausted(pools[connection_pool])
    /\ pools' = [pools EXCEPT ![connection_pool] = PoolConnection(@)]
    /\ UNCHANGED <<handlerVars, connection_pool, explicit_inits, pc, tpool, conn, seen_closed,
                   retryVars, repoVars>>

\* Such an invocation leaves its with block: its connection is closed.
OtherRelease ==
    /\ \E id \in 1..Len(pools) :
        /\ pools[id].connections > HeldBy(id)
        /\ pools' = [pools EXCEPT ![id] = PoolCache(@)]
    /\ UNCHANGED <<handlerVars, connection_pool, explicit_inits, pc, tpool, conn, seen_closed,
                   retryVars, repoVars>>

\* The process once lambda_function has been imported: initialize() has run.
InitImported ==
    /\ connection_pool = 1
    /\ pools = <<PooledDB("explicit")>>
    /\ explicit_inits = 1
    /\ pc = [t \in Threads |-> "idle"]
    /\ tpool = [t \in Threads |-> 0]
    /\ conn = [t \in Threads |-> 0]
    /\ seen_closed = [t \in Threads |-> FALSE]
    /\ default_max_retries = DEFAULT_MAX_RETRIES
    /\ cursors_used = {}
    /\ attempt_num = 0
    /\ max_attempts = 0
    /\ e = NoExc
    /\ trace = << >>
    /\ rq_result = None
    /\ result = None
    /\ exc = NoExc
    /\ borrowed = 0
    /\ released = 0
    /\ repo_exc = NoExc
    /\ hpc = "idle"
    /\ event = None
    /\ manager_domain = None
    /\ calls = << >>
    /\ response = NoResponse

\* Callers of get_connection on the imported process, up to pool exhaustion.
FairPoolNext ==
    \/ \E t \in PoolThreads :
        \/ GC_Call(t)
        \/ GC_Check(t)
        \/ GC_Read(t)
        \/ GC_Borrow(t)
        \/ Release(t)
    \/ OtherBorrow
    \/ OtherRelease

\* Every with block ends, so a held connection is closed in the end (weak
\* fairness of the releases); a get_connection call that has started runs on;
\* and a caller waiting in pool.connection() is woken by each release, so it
\* is not passed over for ever (strong fairness of its borrow).
FairPoolSpec ==
    /\ InitImported
    /\ [][FairPoolNext]_vars
    /\ WF_vars(OtherRelease)
    /\ \A t \in PoolThreads :
        /\ WF_vars(Release(t))
        /\ WF_vars(GC_Check(t))
        /\ WF_vars(GC_Read(t))
        /\ SF_vars(GC_Borrow(t))

\* Invocations that come and go on whatever pool the class refers to, with
\* initialize() and close_all_connections() callable at any time.
CapNext ==
    \/ OtherBorrow
    \/ OtherRelease
    \/ Initialize
    \/ CloseAll

CapSpec == Init /\ [][CapNext]_vars

\* One thread calling get_site_master_by_id again and again, nothing else.
CallNext ==
    \/ Repo_Call
    \/ GC_Check(Main)
    \/ GC_Init(Main)
    \/ GC_Read(Main)
    \/ GC_Borrow(Main)
    \/ RQ_Enter
    \/ RQ_Loop
    \/ RQ_Callback
    \/ RQ_MySQLError
    \/ RQ_Sleep
    \/ RQ_OtherError
    \/ Repo_FetchOne
    \/ CCM_Exit
    \/ Repo_Except

\* The values RetryConstant.DEFAULT_MAX_RETRIES is given: the shipped one, and
\* smaller ones down to a negative one.
RetrySettings == (0 - 1)..DEFAULT_MAX_RETRIES

\* The process with RetryConstant.DEFAULT_MAX_RETRIES set to any of these
\* before the first call.
ConfigInit ==
    /\ connection_pool = 0
    /\ pools = << >>
    /\ explicit_inits = 0
    /\ pc = [t \in Threads |-> "idle"]
    /\ tpool = [t \in Threads |-> 0]
    /\ conn = [t \in Threads |-> 0]
    /\ seen_closed = [t \in Threads |-> FALSE]
    /\ default_max_retries \in RetrySettings
    /\ cursors_used = {}
    /\ attempt_num = 0
    /\ max_attempts = 0
    /\ e = NoExc
    /\ trace = << >>
    /\ rq_result = None
    /\ result = None
    /\ exc = NoExc
    /\ borrowed = 0
    /\ released = 0
    /\ repo_exc = NoExc
    /\ hpc = "idle"
    /\ event = None
    /\ manager_domain = None
    /\ calls = << >>
    /\ response = NoResponse

ConfigSpec == ConfigInit /\ [][CallNext]_vars

\* A call runs to its end when its callback and its waits come back.
FairSpec ==
    /\ Init
    /\ [][CallNext]_vars
    /\ WF_vars(RQ_Loop)
    /\ WF_vars(RQ_Callback)
    /\ WF_vars(RQ_MySQLError)
    /\ WF_vars(RQ_Sleep)
    /\ WF_vars(RQ_OtherError)

\* The process after import (initialize() has run), serving handler
\* invocations one after another.
HandlerInit == InitImported

HandlerNext ==
    \/ H_Invoke
    \/ H_Dispatch
    \/ D_Entry
    \/ D_Head
    \/ H_Lookup
    \/ D_LookupReturn
    \/ D_Start
    \/ D_Put
    \/ X_LookupReturn
    \/ X_Describe
    \/ X_Delete
    \/ GC_Check(Main)
    \/ GC_Read(Main)
    \/ GC_Borrow(Main)
    \/ RQ_Enter
    \/ RQ_Loop
    \/ RQ_Callback
    \/ RQ_MySQLError
    \/ RQ_Sleep
    \/ RQ_OtherError
    \/ Repo_FetchOne
    \/ CCM_Exit
    \/ Repo_Except

HandlerSpec == HandlerInit /\ [][HandlerNext]_vars

\* Connections checked out of the first n pools, together.
RECURSIVE CheckedOut(_)
CheckedOut(n) == IF n = 0 THEN 0 ELSE pools[n].connections + CheckedOut(n - 1)

----------------------------------------------------------------------------
(* Reading the trace of the current retry_query call *)

Indices(tr, ev) == {i \in 1..Len(tr) : tr[i].ev = ev}
Count(tr, ev) == Cardinality(Indices(tr, ev))

\* The failure is a driver error whose first field is the integer code c.
HasCode(x, c) ==
    /\ x.cls = "MySQLError"
    /\ Len(x.args) > 0
    /\ x.args[1] = IntVal(c)

IsLockFailure(x) == HasCode(x, 1205) \/ HasCode(x, 1213)

\* retry_query has returned or raised.
RQ_Ended == pc[Main] \in {"fetchone", "with_exit", "repo_except", "done"}

\* The last failure of the trace has been handled by its except clause.
Handled == pc[Main] \notin {"rq_mysql_error", "rq_other_error"}

----------------------------------------------------------------------------
(* Claims about retry_query *)

C3_FirstTrySuccess ==
    (Len(trace) >= 2 /\ trace[2].ev = "ok") =>
        /\ RQ_Ended
        /\ rq_result = trace[2].val
        /\ exc = NoExc
        /\ Count(trace, "call") = 1
        /\ Count(trace, "sleep") = 0

C3_Witness ==
    /\ pc[Main] = "done"
    /\ trace = <<EvCall, EvOk(IntVal(1))>>
    /\ rq_result = IntVal(1)

\* C4: the k-th backoff wait of a call is made with n = k; each wait follows
\* a retryable failure at once and is followed by the next callback
\* invocation, and no later invocation happens without a wait before it; if
\* the callback fails with 1213 on tries 1 and 2 and succeeds on try 3, the
\* call returns that result after exactly two waits and raises nothing.
C4_BackoffOrder ==
    /\ \A i \in Indices(trace, "sleep") :
        /\ trace[i].n = Cardinality({j \in Indices(trace, "sleep") : j <= i})
        /\ i > 1 /\ trace[i-1].ev = "fail" /\ IsLockFailure(trace[i-1].val)
        /\ i < Len(trace) => trace[i+1].ev = "call"
    /\ \A i \in Indices(trace, "call") : i > 1 => trace[i-1].ev = "sleep"
    /\ (/\ Len(trace) = 8
        /\ trace[2].ev = "fail" /\ HasCode(trace[2].val, 1213)
        /\ trace[5].ev = "fail" /\ HasCode(trace[5].val, 1213)
        /\ trace[8].ev = "ok") =>
            /\ RQ_Ended
            /\ rq_result = trace[8].val
            /\ exc = NoExc
            /\ trace[3] = EvSleep(1)
            /\ trace[6] = EvSleep(2)
            /\ Count(trace, "sleep") = 2

C4_Witness ==
    /\ pc[Main] = "done"
    /\ Len(trace) = 8
    /\ HasCode(trace[2].val, 1213)
    /\ HasCode(trace[5].val, 1213)
    /\ trace[8] = EvOk(IntVal(1))
    /\ rq_result = IntVal(1)

C6_UnexpectedReraised ==
    \A i \in Indices(trace, "fail") :
        trace[i].val.cls # "MySQLError" =>
            /\ i = Len(trace)
            /\ pc[Main] \notin {"rq_sleep", "rq_loop", "rq_try", "rq_mysql_error"}
            /\ Handled => (RQ_Ended /\ exc = trace[i].val)

C6_Witness ==
    /\ pc[Main] = "done"
    /\ exc.cls = "Exception"
    /\ Count(trace, "call") = 3
    /\ Count(trace, "sleep") = 2

----------------------------------------------------------------------------
(* Claims about the connection context manager *)

InWithBlock ==
    pc[Main] \in {"with_body", "rq_loop", "rq_try", "rq_mysql_error", "rq_sleep",
                  "rq_other_error", "fetchone", "with_exit"}

WithBlockLeft == pc[Main] \in {"repo_except", "done"}

\* C7: on every path through the with block (normal return, DatabaseException
\* or DatabaseLockException, an unclassified error) the borrowed connection is
\* closed exactly once: not before the block is left, once when it has been
\* left, never twice; and the pool then counts it as checked out no longer.
C7_ReleasedExactlyOnce ==
    /\ released <= 1
    /\ InWithBlock => (released = 0 /\ conn[Main] # 0)
    /\ WithBlockLeft => (released = 1 /\ borrowed = 1 /\ conn[Main] = 0)
    /\ \A id \in 1..Len(pools) : pools[id].connections = HeldBy(id)

C7_Witness ==
    /\ pc[Main] = "done"
    /\ exc.cls = "Exception"
    /\ released = 1
    /\ conn[Main] = 0

----------------------------------------------------------------------------
(* Claims about the pool manager *)

\* C8: when first-time callers of get_connection race while no pool exists
\* (and nobody calls initialize() directly), exactly one pool is built and
\* every connection handed out comes from the pool the class refers to.
C8_SinglePoolOnFirstUse ==
    explicit_inits = 0 =>
        /\ Len(pools) <= 1
        /\ \A t \in PoolThreads : conn[t] # 0 => conn[t] = connection_pool

\* A get_connection call takes its line-65 decision on a pool on which
\* close() has run.
CheckOnClosedPool(t) ==
    /\ pc[t] = "gc_check"
    /\ pc'[t] # "gc_check"
    /\ connection_pool # 0
    /\ pools[connection_pool].closed

\* C9 as stated: after close_all_connections has run on the pool, the next
\* get_connection call takes the initialize() branch.
C9_ReinitAfterCloseAll ==
    [][\A t \in PoolThreads : CheckOnClosedPool(t) => pc'[t] = "gc_init"]_vars

\* C9 amended: close_all_connections leaves _connection_pool referring to the
\* pool it closed, and the next get_connection call on it does not call
\* initialize(): it builds no pool and goes on to borrow from the same one.
C9_NoReinitAfterCloseAll ==
    [][/\ \A id \in 1..Len(pools) :
            (id = connection_pool /\ ~pools[id].closed /\ pools'[id].closed)
                => connection_pool' = id
       /\ \A t \in PoolThreads :
            CheckOnClosedPool(t) =>
                /\ pc'[t] = "gc_read"
                /\ pools' = pools
                /\ connection_pool' = connection_pool]_vars

C9_Witness ==
    \E t \in PoolThreads :
        /\ pc[t] = "holding"
        /\ seen_closed[t]
        /\ Len(pools) = 1
        /\ conn[t] = connection_pool
        /\ pools[conn[t]].closed

Blocked(t) == pc[t] = "gc_borrow" /\ PoolExhausted(pools[tpool[t]])

C11_AtMostMaxConnections == CheckedOut(Len(pools)) <= 20


\* C12: an error that DatabaseUtil.execute raised inside get_site_master_by_id
\* reaches the caller of get_site_master_by_id as that same error (same type,
\* same flags): the repository does not replace it with a different error.
C12_ErrorsPropagateUnchanged ==
    (pc[Main] = "done" /\ exc # NoExc) => repo_exc = exc


\* C13: when get_site_master_by_id returns normally, it returns None if the
\* statement matched zero rows and the row's column mapping if it matched
\* exactly one row, raises nothing, and has released the one connection it
\* borrowed.
C13_AbsentOrRow ==
    (pc[Main] = "done" /\ exc = NoExc) =>
        /\ repo_exc = NoExc
        /\ rq_result = IntVal(0) => result = None
        /\ rq_result = IntVal(1) => result = Row
        /\ borrowed = 1
        /\ released = 1
        /\ conn[Main] = 0

C13_Witness ==
    /\ pc[Main] = "done"
    /\ exc = NoExc
    /\ rq_result = IntVal(1)
    /\ result = Row
    /\ released = 1


\* The messages an exception of this program is built with.
Messages ==
    {StrVal(m) : m \in Msgs} \cup {TupleVal(x.args) : x \in DriverErrors}

Flags(x) == <<x.is_retry, x.is_send_email, x.is_send_to_dlq, x.is_insert_to_api_error_history>>

RQ_Running == pc[Main] \in {"rq_loop", "rq_try", "rq_mysql_error", "rq_other_error", "rq_sleep"}

\* C16: when retry_query runs with max_attempts <= 0, the callback is never
\* invoked, no backoff wait occurs, no error is raised, and the call returns
\* None.
C16_NoAttemptReturnsNone ==
    ((RQ_Running \/ pc[Main] = "fetchone") /\ max_attempts <= 0) =>
        /\ trace = << >>
        /\ pc[Main] \in {"rq_loop", "fetchone"}
        /\ exc = NoExc
        /\ pc[Main] = "fetchone" => rq_result = None

C16_Witness ==
    /\ pc[Main] = "fetchone"
    /\ max_attempts <= 0
    /\ trace = << >>
    /\ rq_result = None


\* The four ways a retry_query call can end, read off the state.
ReturnedCallbackResult ==
    /\ exc = NoExc
    /\ trace # << >>
    /\ trace[Len(trace)].ev = "ok"
    /\ rq_result = trace[Len(trace)].val

RaisedLock == exc.cls = "DatabaseLockException"

RaisedDatabase == exc.cls = "DatabaseException"

ReraisedUnclassified ==
    /\ trace # << >>
    /\ trace[Len(trace)].ev = "fail"
    /\ trace[Len(trace)].val.cls # "MySQLError"
    /\ exc = trace[Len(trace)].val

Outcomes ==
    {o \in {"return", "lock", "database", "reraise"} :
        \/ o = "return" /\ ReturnedCallbackResult
        \/ o = "lock" /\ RaisedLock
        \/ o = "database" /\ RaisedDatabase
        \/ o = "reraise" /\ ReraisedUnclassified}

C18_FallThroughUnreachable ==
    max_attempts >= 1 =>
        /\ pc[Main] = "rq_loop" => LoopCondition(attempt_num, max_attempts)
        /\ pc[Main] = "fetchone" =>
            /\ trace # << >>
            /\ trace[Len(trace)].ev = "ok"
            /\ rq_result = trace[Len(trace)].val
            /\ rq_result # None

C18_Witness ==
    /\ max_attempts >= 1
    /\ pc[Main] = "fetchone"
    /\ Count(trace, "fail") = 2
    /\ rq_result = IntVal(1)


\* A driver error whose first field is no integer error code.
NoCode(x) ==
    /\ x.cls = "MySQLError"
    /\ \/ Len(x.args) = 0
       \/ x.args[1].ty # "int"

C20_InitializeReplacesPool ==
    [][/\ (Len(pools') = Len(pools) + 1 /\ connection_pool # 0) =>
            /\ connection_pool' = Len(pools')
            /\ connection_pool' # connection_pool
            /\ pools'[Len(pools')] = PooledDB(pools'[Len(pools')].by)
            /\ SubSeq(pools', 1, Len(pools)) = pools
            /\ conn' = conn
       /\ \A t \in PoolThreads :
            /\ (pc[t] = "gc_read" /\ pc'[t] = "gc_borrow") =>
                    tpool'[t] = connection_pool /\ connection_pool = Len(pools)
            /\ (pc[t] = "gc_borrow" /\ pc'[t] = "holding") =>
                    /\ conn'[t] = tpool[t]
                    /\ \A id \in 1..Len(pools) :
                            id # tpool[t] => pools'[id] = pools[id]]_vars

C20_Witness ==
    /\ Len(pools) = 2
    /\ pools[2].by = "explicit"
    /\ connection_pool = 2
    /\ ~pools[1].closed
    /\ pools[1].connections = 1
    /\ \E t, u \in PoolThreads : conn[t] = 1 /\ conn[u] = 2


\* C21: one call of get_site_master_by_id borrows exactly one connection, and
\* while retry_query runs (first try and every retry) the call borrows no
\* further connection, builds no pool, does not release its connection, and
\* invokes the callback with the one cursor opened on that connection.
C21_OneConnectionOneCursor ==
    /\ [](RQ_Running =>
            /\ borrowed = 1
            /\ released = 0
            /\ conn[Main] # 0
            /\ cursors_used \subseteq {cursor})
    /\ [][RQ_Running =>
            /\ borrowed' = borrowed
            /\ released' = released
            /\ conn' = conn
            /\ pools' = pools
            /\ connection_pool' = connection_pool
            /\ cursors_used' \subseteq {cursor}]_vars

C21_Witness ==
    /\ pc[Main] = "rq_try"
    /\ attempt_num = 2
    /\ Count(trace, "sleep") = 2
    /\ borrowed = 1
    /\ released = 0
    /\ cursors_used = {cursor}


----------------------------------------------------------------------------
(* Claims about the handler *)

\* The operations the invocation in progress has called, in order.
Ops == [i \in 1..Len(calls) |-> calls[i].op]

Called(op) == \E i \in 1..Len(calls) : calls[i].op = op

\* C22: whatever the event and the outcomes of the external calls, handler
\* returns a response mapping with statusCode 200, 400, 404 or 500; it never
\* returns an absent result.
C22_AlwaysAResponse ==
    hpc = "returned" =>
        /\ response.ty = "dict"
        /\ response.statusCode \in {200, 400, 404, 500}


\* The invocation's event carries no usable site_master_id.
NoSiteId == event.site_master_id \in {None, StrVal("")}

\* The lookup of this invocation came back without an error and without a
\* usable manager_domain.
NoDomainFound ==
    /\ Called("get_site_master_by_id")
    /\ pc[Main] = "done"
    /\ repo_exc = NoExc
    /\ manager_domain \in {None, StrVal("")}

\* C23: with no site_master_id (missing or empty), whatever the action, and
\* with a site_master_id but an action other than "deploy" and "destroy",
\* handler returns status 400 and makes no database, S3, pipeline or
\* CloudFormation call.
C23_BadRequestWithoutCalls ==
    (hpc # "idle" /\ (NoSiteId \/ event.action \notin {StrVal("deploy"), StrVal("destroy")})) =>
        /\ calls = << >>
        /\ pc[Main] \in {"idle", "done"}
        /\ hpc \in {"h_dispatch", "returned"}
        /\ hpc = "returned" =>
            response = Response(400, IF NoSiteId
                                     THEN "site_master_id is required in request body"
                                     ELSE "Invalid action")

C23_Witness ==
    /\ hpc = "returned"
    /\ event = [action |-> StrVal("deploy"), site_master_id |-> StrVal("")]
    /\ response.statusCode = 400
    /\ calls = << >>

C26_DestroyOrder ==
    /\ \A i \in 1..Len(calls) :
        calls[i].op = "delete_stack" =>
            /\ i = 3
            /\ calls[1].op = "get_site_master_by_id"
            /\ pc[Main] = "done"
            /\ repo_exc = NoExc
            /\ manager_domain \notin {None, StrVal("")}
            /\ calls[2] = Call("describe_stacks", Ok)
    /\ (hpc = "returned" /\ event.action = StrVal("destroy") /\ NoDomainFound) =>
        /\ response = Response(404, "No manager domain found")
        /\ Ops = <<"get_site_master_by_id">>

C26_Witness ==
    /\ hpc = "returned"
    /\ Ops = <<"get_site_master_by_id", "describe_stacks", "delete_stack">>
    /\ manager_domain = StrVal("example.com")

\* C27: when describe_stacks fails with a client error whose text contains
\* 'does not exist', destroy_stacks returns status 404 with the message that
\* the stack does not exist, and delete_stack is not called.
C27_MissingStackIs404 ==
    (hpc = "returned" /\ Len(calls) >= 1
        /\ calls[Len(calls)] =
            Call("describe_stacks", ClientError("ValidationError", "Stack with id does not exist"))) =>
        /\ response = Response(404, "Stack does not exist")
        /\ ~Called("delete_stack")

====
